---------------------------- MODULE Spec2Model ----------------------------
(***************************************************************************)
(* A model of notification/models.py: the NoticeType, NoticeSetting and    *)
(* Notice tables, the preference lookup with its lazy row creation, the    *)
(* dispatch loop of send_now, and the Notice ledger's queries and          *)
(* mutators.                                                               *)
(*                                                                         *)
(* Tables are sequences (a row's primary key is its index) or sets of      *)
(* rows.  External collaborators (template rendering, the mail and SMS     *)
(* transports, the language store, the object-permission check) are        *)
(* inputs drawn by the step that consults them.  The rendered message      *)
(* text of a Notice is not modelled.                                       *)
(***************************************************************************)
EXTENDS Integers, Sequences, FiniteSets, TLC

VARIABLES
    noticeTypes,    \* NoticeType table: sequence of rows, pk = index
    settings,       \* NoticeSetting table: set of rows, unique on (user, notice_type, medium)
    notices,        \* Notice table: sequence of rows, pk = index, in order of creation
    inst,           \* in-memory Notice instances held by callers
    language,       \* the active translation language (get_language / activate)
    sn,             \* the send_now call in progress
    cnt,            \* the create_notice_type calls in progress, one per caller
    gns,            \* the get_notification_setting calls in progress, one per caller
    pass,           \* the locals of the pass of send_now's loop in progress or just over
    ret,            \* what the last ledger operation returned
    queueBatches,   \* NoticeQueueBatch table: sequence of rows, each the list of queued tuples
    observedItems,  \* ObservedItem table: sequence of rows, duplicates allowed
    QUEUE_ALL,      \* settings.NOTIFICATION_QUEUE_ALL as read at import (line 33)
    snd,            \* the last send call: its flags and the path it took
    son,            \* the send_observation_notices_for call in progress
    obs             \* what the last observe / stop_observing / is_observing call returned

vars == <<noticeTypes, settings, notices, inst, language, sn, pass, cnt, gns, ret,
          queueBatches, observedItems, QUEUE_ALL, snd, son, obs>>

\* the state of queueing and observation, which the code modelled in the
\* first sections below never touches
registry == <<queueBatches, observedItems, QUEUE_ALL, snd, son, obs>>

----------------------------------------------------------------------------
(* Bounds *)

MaxRecipients == 2
MaxNotices == 2
MaxDefault == 3
MaxTypeRows == 2
MaxBatches == 2
MaxItems == 2

Users == {1, 2}
NoUser == 0
AnonymousUser == 9
Observed == {1, 2}
Signals == {"post_save", "post_delete"}
Callers == {1, 2}
Handles == {1, 2}

Labels == {"welcome", "alert"}
Displays == {"Welcome", "Hello"}
Descriptions == {"Welcome message", "Greeting"}
Defaults == 1..MaxDefault
Languages == {"en", "fr"}
NoLanguage == "None"
CustomAnswers ==
    {[has |-> FALSE, Email |-> FALSE, Display |-> FALSE, SMS |-> FALSE]}
        \cup {[has |-> TRUE, Email |-> e, Display |-> FALSE, SMS |-> s] : e, s \in BOOLEAN}

----------------------------------------------------------------------------
(* NoticeType, NOTICE_MEDIA, NoticeSetting *)

NoticeType(label, display, description, default) ==
    [label |-> label, display |-> display, description |-> description, default |-> default]

NOTICE_MEDIA == ("1" :> "Email") @@ ("2" :> "Display") @@ ("3" :> "SMS")

NOTICE_MEDIA_DEFAULTS == ("1" :> 2) @@ ("2" :> 3) @@ ("3" :> 3)

NoticeSetting(user, notice_type, medium, send) ==
    [user |-> user, notice_type |-> notice_type, medium |-> medium, send |-> send]

\* NoticeSetting.objects.filter(user=, notice_type=, medium=)
SettingRows(S, user, nt, medium) ==
    {r \in S : r.user = user /\ r.notice_type = nt /\ r.medium = medium}

\* the unique_together constraint of NoticeSetting
UniqueTogether(S) ==
    \A r1, r2 \in S :
        (r1.user = r2.user /\ r1.notice_type = r2.notice_type /\ r1.medium = r2.medium)
            => r1 = r2

\* a lookup that takes any row for the label asked
TypeRowsAny(T, label) == DOMAIN T

\* NoticeType.objects.filter(label=label): the primary keys of the matching rows
TypeRows(T, label) == {i \in DOMAIN T : T[i].label = label}

\* a NoticeType instance as a caller holds it: the row's pk and the fields read from it
TypeInstance(T, i) == [id |-> i, label |-> T[i].label, default |-> T[i].default]

NoType == [id |-> 0, label |-> "", default |-> 0]

\* line 108: default = (NOTICE_MEDIA_DEFAULTS[medium] <= notice_type.default)
DefaultSend(medium, notice_type) == NOTICE_MEDIA_DEFAULTS[medium] <= notice_type.default

\* a lookup that brings a stored row up to the notice type's present default
get_notification_setting_refreshing(S, user, notice_type, medium) ==
    LET rows == SettingRows(S, user, notice_type.id, medium)
        setting == NoticeSetting(user, notice_type.id, medium,
                                 DefaultSend(medium, notice_type))
    IN  [setting |-> setting, settings |-> (S \ rows) \cup {setting}]

\* get_notification_setting run without interleaving: the setting returned
\* and the table afterwards
get_notification_setting(S, user, notice_type, medium) ==
    LET rows == SettingRows(S, user, notice_type.id, medium) IN
    IF rows # {}
    THEN [setting |-> CHOOSE r \in rows : TRUE, settings |-> S]
    ELSE LET setting == NoticeSetting(user, notice_type.id, medium,
                                      DefaultSend(medium, notice_type)) IN
         [setting |-> setting, settings |-> S \cup {setting}]

\* should_send.  objects = (enable_object_notifications and obj_instance);
\* custom holds the answers of custom_permission_check for this user and
\* object: has, whether the user has custom_notification_settings on it, and
\* per medium whether the "<medium>-<label>" permission is granted.
should_send(S, user, notice_type, medium, objects, custom) ==
    IF objects /\ custom.has
    THEN [send |-> custom[NOTICE_MEDIA[medium]], settings |-> S]
    ELSE LET g == get_notification_setting(S, user, notice_type, medium) IN
         [send |-> g.setting.send, settings |-> g.settings]

----------------------------------------------------------------------------
(* get_notification_setting, step by step (lines 103-116) *)

NoSetting == NoticeSetting(NoUser, 0, "", FALSE)

IdleGet ==
    [pc |-> "idle", user |-> NoUser, notice_type |-> NoType, medium |-> "",
     setting |-> NoSetting, missing |-> FALSE, inserted |-> FALSE]

\* line 106: NoticeSetting.objects.get(...); DoesNotExist leads to the insert
GnsCall(c, user, notice_type, medium) ==
    /\ gns[c].pc = "idle"
    /\ LET rows == SettingRows(settings, user, notice_type.id, medium)
           call == [IdleGet EXCEPT !.user = user, !.notice_type = notice_type,
                                   !.medium = medium]
       IN  IF rows # {}
           THEN gns' = [gns EXCEPT ![c] =
                    [call EXCEPT !.pc = "done", !.setting = CHOOSE r \in rows : TRUE]]
           ELSE gns' = [gns EXCEPT ![c] = [call EXCEPT !.pc = "save", !.missing = TRUE]]
    /\ UNCHANGED <<registry,noticeTypes, settings, notices, inst, language, sn, pass, cnt, ret>>

\* lines 108-112 with no "except IntegrityError": the violation reaches the caller
GnsSaveNoRetry(c) ==
    /\ gns[c].pc = "save"
    /\ LET g == gns[c]
           setting == NoticeSetting(g.user, g.notice_type.id, g.medium,
                                    DefaultSend(g.medium, g.notice_type))
       IN  IF SettingRows(settings, g.user, g.notice_type.id, g.medium) = {}
           THEN /\ settings' = settings \cup {setting}
                /\ gns' = [gns EXCEPT ![c] =
                        [g EXCEPT !.pc = "done", !.setting = setting, !.inserted = TRUE]]
           ELSE /\ settings' = settings
                /\ gns' = [gns EXCEPT ![c] = [g EXCEPT !.pc = "raised"]]
    /\ UNCHANGED <<registry,noticeTypes, notices, inst, language, sn, pass, cnt, ret>>

\* lines 108-112: compute the default and save the new row; the store
\* refuses a second row for the triple with IntegrityError
GnsSave(c) ==
    /\ gns[c].pc = "save"
    /\ LET g == gns[c]
           setting == NoticeSetting(g.user, g.notice_type.id, g.medium,
                                    DefaultSend(g.medium, g.notice_type))
       IN  IF SettingRows(settings, g.user, g.notice_type.id, g.medium) = {}
           THEN /\ settings' = settings \cup {setting}
                /\ gns' = [gns EXCEPT ![c] =
                        [g EXCEPT !.pc = "done", !.setting = setting, !.inserted = TRUE]]
           ELSE /\ settings' = settings
                /\ gns' = [gns EXCEPT ![c] = [g EXCEPT !.pc = "reget"]]
    /\ UNCHANGED <<registry,noticeTypes, notices, inst, language, sn, pass, cnt, ret>>

\* line 115: get the row again
GnsReget(c) ==
    /\ gns[c].pc = "reget"
    /\ LET g == gns[c]
           rows == SettingRows(settings, g.user, g.notice_type.id, g.medium)
       IN  IF Cardinality(rows) = 1
           THEN gns' = [gns EXCEPT ![c] =
                    [g EXCEPT !.pc = "done", !.setting = CHOOSE r \in rows : TRUE]]
           ELSE gns' = [gns EXCEPT ![c] = [g EXCEPT !.pc = "raised"]]
    /\ UNCHANGED <<registry,noticeTypes, settings, notices, inst, language, sn, pass, cnt, ret>>

\* line 116 (or 106): the caller has the setting
GnsReturn(c) ==
    /\ gns[c].pc \in {"done", "raised"}
    /\ gns' = [gns EXCEPT ![c] = IdleGet]
    /\ UNCHANGED <<registry,noticeTypes, settings, notices, inst, language, sn, pass, cnt, ret>>

----------------------------------------------------------------------------
(* create_notice_type, step by step (lines 235-260) *)

NoRow == [id |-> 0, label |-> "", display |-> "", description |-> "", default |-> 0]

\* the NoticeType instance line 242 reads
RowInstance(T, i) ==
    [id |-> i, label |-> T[i].label, display |-> T[i].display,
     description |-> T[i].description, default |-> T[i].default]

IdleCreate ==
    [pc |-> "idle", label |-> "", display |-> "", description |-> "", default |-> 0,
     notice_type |-> NoRow, found |-> NoRow, updated |-> FALSE, rows_before |-> 0,
     saved |-> FALSE]

\* lines 243-252 without the comparison of default
UpdateIgnoringDefault(notice_type, display, description, default) ==
    [notice_type |-> [notice_type EXCEPT !.display = display, !.description = description],
     updated |-> (display # notice_type.display \/ description # notice_type.description)]

\* lines 243-252: take over the fields that differ; updated tells whether any did
Update(notice_type, display, description, default) ==
    [notice_type |-> [notice_type EXCEPT !.display = display, !.description = description,
                                         !.default = default],
     updated |-> \/ display # notice_type.display
                 \/ description # notice_type.description
                 \/ default # notice_type.default]

\* lines 241-253: look the label up and compare
CntCall(c, label, display, description, default) ==
    /\ cnt[c].pc = "idle"
    /\ LET rows == TypeRows(noticeTypes, label)
           call == [IdleCreate EXCEPT !.label = label, !.display = display,
                       !.description = description, !.default = default,
                       !.rows_before = Len(noticeTypes)]
       IN  \/ /\ rows = {}                          \* DoesNotExist: line 257
              /\ Len(noticeTypes) < MaxTypeRows
              /\ cnt' = [cnt EXCEPT ![c] = [call EXCEPT !.pc = "insert"]]
           \/ /\ Cardinality(rows) > 1              \* MultipleObjectsReturned
              /\ cnt' = [cnt EXCEPT ![c] = [call EXCEPT !.pc = "raised"]]
           \/ /\ Cardinality(rows) = 1
              /\ LET found == RowInstance(noticeTypes, CHOOSE i \in rows : TRUE)
                     u == Update(found, display, description, default)
                 IN  cnt' = [cnt EXCEPT ![c] =
                        [call EXCEPT !.pc = IF u.updated THEN "save" ELSE "done",
                                     !.found = found, !.notice_type = u.notice_type,
                                     !.updated = u.updated]]
    /\ UNCHANGED <<registry,noticeTypes, settings, notices, inst, language, sn, pass, gns, ret>>

\* line 254: notice_type.save()
CntSave(c) ==
    /\ cnt[c].pc = "save"
    /\ LET nt == cnt[c].notice_type IN
        noticeTypes' = [noticeTypes EXCEPT ![nt.id] =
                            NoticeType(nt.label, nt.display, nt.description, nt.default)]
    /\ cnt' = [cnt EXCEPT ![c].pc = "done", ![c].saved = TRUE]
    /\ UNCHANGED <<registry,settings, notices, inst, language, sn, pass, gns, ret>>

\* line 258: NoticeType(...).save()
CntInsert(c) ==
    /\ cnt[c].pc = "insert"
    /\ LET call == cnt[c] IN
        noticeTypes' = Append(noticeTypes,
            NoticeType(call.label, call.display, call.description, call.default))
    /\ cnt' = [cnt EXCEPT ![c].pc = "done", ![c].saved = TRUE]
    /\ UNCHANGED <<registry,settings, notices, inst, language, sn, pass, gns, ret>>

\* the call is over
CntReturn(c) ==
    /\ cnt[c].pc \in {"done", "raised"}
    /\ cnt' = [cnt EXCEPT ![c] = IdleCreate]
    /\ UNCHANGED <<registry,noticeTypes, settings, notices, inst, language, sn, pass, gns, ret>>

----------------------------------------------------------------------------
(* Notice *)

Notice(recipient, sender, notice_type, on_site) ==
    [recipient |-> recipient, sender |-> sender, notice_type |-> notice_type,
     unseen |-> TRUE, archived |-> FALSE, on_site |-> on_site]

\* the values of an optional boolean argument: None, True, False
Optional == {"None", "True", "False"}

\* qs.filter(field=value) on a boolean field, for an argument that is not None
Matches(flag, arg) == flag <=> (arg = "True")

\* a set of primary keys as the sequence Meta.ordering = ["-added"] yields:
\* the latest first (rows are added in the order of their keys)
RECURSIVE Descending(_)
Descending(ids) ==
    IF ids = {} THEN <<>>
    ELSE LET m == CHOOSE i \in ids : \A j \in ids : j <= i IN
         <<m>> \o Descending(ids \ {m})

Range(seq) == {seq[i] : i \in DOMAIN seq}

\* notices_for with "if unseen:" in the place of "if unseen is not None:"
notices_for_truthy(N, user, archived, unseen, on_site, sent_) ==
    LET qs0 == {i \in DOMAIN N : IF sent_ THEN N[i].sender = user ELSE N[i].recipient = user}
        qs1 == IF unseen = "True" THEN {i \in qs0 : N[i].unseen} ELSE qs0
        qs2 == IF on_site # "None" THEN {i \in qs1 : Matches(N[i].on_site, on_site)} ELSE qs1
    IN  Descending(qs2)

\* NoticeManager.notices_for: the primary keys of the rows of the queryset.
\* Line 158 builds the queryset filtered on archived and drops it; qs is
\* not narrowed.
notices_for(N, user, archived, unseen, on_site, sent_) ==
    LET qs0 == {i \in DOMAIN N : IF sent_ THEN N[i].sender = user ELSE N[i].recipient = user}
        qs1 == IF unseen # "None" THEN {i \in qs0 : Matches(N[i].unseen, unseen)} ELSE qs0
        qs2 == IF on_site # "None" THEN {i \in qs1 : Matches(N[i].on_site, on_site)} ELSE qs1
    IN  Descending(qs2)

\* NoticeManager.unseen_count_for, received, sent
unseen_count_for(N, recipient, archived, on_site, sent_) ==
    Len(notices_for(N, recipient, archived, "True", on_site, sent_))

received(N, recipient, archived, unseen, on_site) ==
    notices_for(N, recipient, archived, unseen, on_site, FALSE)

sent(N, sender, archived, unseen, on_site) ==
    notices_for(N, sender, archived, unseen, on_site, TRUE)

\* a Notice instance in a caller's memory: the row's key and the values its
\* fields had when it was read, as changed by the caller since.  The fields
\* that no code assigns are read from the row.
NoInstance == [pk |-> 0, unseen |-> FALSE, archived |-> FALSE]

Instance(N, pk) == [pk |-> pk, unseen |-> N[pk].unseen, archived |-> N[pk].archived]

NoReturn == [op |-> "", value |-> FALSE]

\* Model.save() of an instance: the row takes the instance's field values
Save(N, instance) ==
    [N EXCEPT ![instance.pk].unseen = instance.unseen,
              ![instance.pk].archived = instance.archived]

\* a caller takes a Notice of a queryset into memory (handle h): the k-th
\* row of notices_for(user, archived, unseen, on_site, sent)
Fetch(h, user, archived, unseen, on_site, sent_, k) ==
    /\ LET qs == notices_for(notices, user, archived, unseen, on_site, sent_) IN
        /\ k \in DOMAIN qs
        /\ inst' = [inst EXCEPT ![h] = Instance(notices, qs[k])]
    /\ ret' = NoReturn
    /\ UNCHANGED <<registry,noticeTypes, settings, notices, language, sn, pass, cnt, gns>>

\* Notice.archive (lines 202-204)
Archive(h) ==
    /\ inst[h].pk # 0
    /\ LET self == [inst[h] EXCEPT !.archived = TRUE] IN
        /\ inst' = [inst EXCEPT ![h] = self]
        /\ notices' = Save(notices, self)
    /\ ret' = NoReturn
    /\ UNCHANGED <<registry,noticeTypes, settings, language, sn, pass, cnt, gns>>

\* Notice.is_unseen (lines 206-217)
IsUnseen(h) ==
    /\ inst[h].pk # 0
    /\ LET unseen == inst[h].unseen
           self == [inst[h] EXCEPT !.unseen = FALSE] IN
        /\ IF unseen
           THEN /\ inst' = [inst EXCEPT ![h] = self]
                /\ notices' = Save(notices, self)
           ELSE UNCHANGED <<registry,inst, notices>>
        /\ ret' = [op |-> "is_unseen", value |-> unseen]
    /\ UNCHANGED <<registry,noticeTypes, settings, language, sn, pass, cnt, gns>>

----------------------------------------------------------------------------
(* send_now *)

IdleCall ==
    [pc |-> "idle", users |-> <<>>, idx |-> 0, label |-> "", notice_type |-> NoType,
     sender |-> NoUser, objects |-> FALSE, force_send |-> FALSE,
     current_language |-> NoLanguage, error |-> "", entry_language |-> NoLanguage,
     entry_notices |-> 0, selected |-> 0, email_failed |-> FALSE]

\* the state of one pass of the loop over users (lines 339-412); email_pref
\* is what should_send answered for Email when line 341 came to call it
NoPass ==
    [idx |-> 0, user |-> NoUser, is_active |-> FALSE, email |-> FALSE,
     email_pref |-> FALSE,
     should_send_email |-> FALSE, should_send_sms |-> FALSE, on_site |-> FALSE,
     notices_before |-> 0, email_tried |-> FALSE, email_ok |-> FALSE, email_sent |-> FALSE,
     sms_tried |-> FALSE, sms_ok |-> FALSE, sms_sent |-> FALSE]

RecipientLists ==
    UNION {[1..n -> Users] : n \in 0..MaxRecipients}

\* line 341: user.is_active and (user.email and force_send or should_send(...));
\* pref is what should_send answers when it is asked
ShouldSendEmailForced(is_active, email, force_send, pref) ==
    (email /\ force_send) \/ (is_active /\ pref)

\* line 341 with force_send alone in the place of (user.email and force_send)
ShouldSendEmailNoAddress(is_active, email, force_send, pref) ==
    is_active /\ (force_send \/ pref)

ShouldSendEmail(is_active, email, force_send, pref) ==
    is_active /\ ((email /\ force_send) \/ pref)

\* line 342: user.userprofile.sms and user.is_active and should_send(...)
ShouldSendSms(is_active, sms, pref) ==
    sms /\ is_active /\ pref

\* line 347: the pass goes on when a channel is selected
SelectedEmailOnly(should_send_email, should_send_sms, on_site) ==
    should_send_email \/ on_site

Selected(should_send_email, should_send_sms, on_site) ==
    should_send_email \/ should_send_sms \/ on_site

\* lines 318-327: resolve the notice type, remember the active language
SendNowEnter(users, label, on_site, sender, obj_instance, force_send) ==
    /\ sn.pc = "idle"
    /\ Len(notices) + Len(users) <= MaxNotices
    /\ LET rows == TypeRows(noticeTypes, label)
           base == [IdleCall EXCEPT !.users = users, !.label = label,
                       !.sender = sender, !.force_send = force_send,
                       !.objects = obj_instance,
                       !.entry_language = language, !.entry_notices = Len(notices)]
       IN  \/ /\ users = <<>>                           \* users[0]: IndexError
              /\ sn' = [base EXCEPT !.pc = "raised", !.error = "IndexError"]
           \/ /\ users # <<>>
              /\ rows = {}                              \* NoticeType.DoesNotExist
              /\ sn' = [base EXCEPT !.pc = "raised", !.error = "DoesNotExist"]
           \/ /\ users # <<>>
              /\ Cardinality(rows) > 1                  \* NoticeType.MultipleObjectsReturned
              /\ sn' = [base EXCEPT !.pc = "raised", !.error = "MultipleObjectsReturned"]
           \/ /\ users # <<>>
              /\ Cardinality(rows) = 1
              /\ sn' = [base EXCEPT !.pc = "select", !.idx = 1,
                           !.notice_type = TypeInstance(noticeTypes, CHOOSE i \in rows : TRUE),
                           !.current_language = language]
    /\ UNCHANGED <<noticeTypes, settings, notices, inst, language, pass, cnt, gns, ret>>

\* send_now called by the application itself
SendNowCall(users, label, on_site, sender, obj_instance, force_send) ==
    /\ SendNowEnter(users, label, on_site, sender, obj_instance, force_send)
    /\ UNCHANGED registry

\* the end of the pass at sn.idx: on to the next user, or out of the loop,
\* where line 416 activates current_language again and the call returns
NextPass(call) ==
    IF call.idx < Len(call.users)
    THEN [call EXCEPT !.idx = call.idx + 1, !.pc = "select"]
    ELSE [call EXCEPT !.idx = call.idx + 1, !.pc = "done"]

LanguageAfter(call, lang) ==
    IF call.pc = "done" THEN call.current_language ELSE lang

\* lines 339-348 with line 344 in force: on_site = should_send(user,
\* notice_type, "2", obj_instance)
SendNowSelectOnSite(is_active, email, sms, custom) ==
    /\ sn.pc = "select"
    /\ LET user == sn.users[sn.idx]
           askE == is_active /\ ~(email /\ sn.force_send)
           rE   == should_send(settings, user, sn.notice_type, "1", sn.objects, custom)
           should_send_email == ShouldSendEmail(is_active, email, sn.force_send, rE.send)
           S1   == IF askE THEN rE.settings ELSE settings
           askS == sms /\ is_active
           rS   == should_send(S1, user, sn.notice_type, "3", sn.objects, custom)
           should_send_sms == ShouldSendSms(is_active, sms, rS.send)
           S2   == IF askS THEN rS.settings ELSE S1
           rD   == should_send(S2, user, sn.notice_type, "2", sn.objects, custom)
           on_site == rD.send
           new == [NoPass EXCEPT !.idx = sn.idx, !.user = user, !.is_active = is_active,
                       !.email = email, !.email_pref = askE /\ rE.send,
                       !.should_send_email = should_send_email,
                       !.should_send_sms = should_send_sms, !.on_site = on_site,
                       !.notices_before = Len(notices)]
       IN  /\ settings' = rD.settings
           /\ IF Selected(should_send_email, should_send_sms, on_site)
              THEN sn' = [sn EXCEPT !.pc = "render", !.selected = sn.selected + 1]
              ELSE sn' = NextPass(sn)
           /\ pass' = new
    /\ language' = LanguageAfter(sn', language)
    /\ UNCHANGED <<registry, noticeTypes, notices, inst, cnt, gns, ret>>

\* lines 339-348: which channels this user gets.  is_active, email and sms are
\* the attributes of the User object, custom the answers of the
\* object-permission check for this user.
SendNowSelect(is_active, email, sms, custom) ==
    /\ sn.pc = "select"
    /\ LET user == sn.users[sn.idx]
           askE == is_active /\ ~(email /\ sn.force_send)
           rE   == should_send(settings, user, sn.notice_type, "1", sn.objects, custom)
           should_send_email == ShouldSendEmail(is_active, email, sn.force_send, rE.send)
           S1   == IF askE THEN rE.settings ELSE settings
           askS == sms /\ is_active
           rS   == should_send(S1, user, sn.notice_type, "3", sn.objects, custom)
           should_send_sms == ShouldSendSms(is_active, sms, rS.send)
           S2   == IF askS THEN rS.settings ELSE S1
           on_site == FALSE
           new == [NoPass EXCEPT !.idx = sn.idx, !.user = user, !.is_active = is_active,
                       !.email = email, !.email_pref = askE /\ rE.send,
                       !.should_send_email = should_send_email,
                       !.should_send_sms = should_send_sms, !.on_site = on_site,
                       !.notices_before = Len(notices)]
       IN  /\ settings' = S2
           /\ IF Selected(should_send_email, should_send_sms, on_site)
              THEN sn' = [sn EXCEPT !.pc = "render", !.selected = sn.selected + 1]
              ELSE sn' = NextPass(sn)                   \* continue
           /\ pass' = new
    /\ language' = LanguageAfter(sn', language)
    /\ UNCHANGED <<registry,noticeTypes, notices, inst, cnt, gns, ret>>

\* lines 350-384: activate the user's language, render, create the Notice.
\* lang is the answer of get_notification_language (NoLanguage: the store
\* is not available), rendered whether every template rendered.
SendNowRender(lang, rendered) ==
    /\ sn.pc = "render"
    /\ language' = IF lang # NoLanguage THEN lang ELSE language
    /\ IF rendered
       THEN /\ notices' = Append(notices,
                              Notice(pass.user, sn.sender, sn.notice_type.id, pass.on_site))
            /\ sn' = [sn EXCEPT !.pc = "email"]
       ELSE /\ notices' = notices
            /\ sn' = [sn EXCEPT !.pc = "raised", !.error = "TemplateError"]
    /\ UNCHANGED <<registry,noticeTypes, settings, inst, pass, cnt, gns, ret>>

\* lines 386-399: the email channel; delivered is whether msg.send() returned
SendNowEmailRaising(delivered) ==
    /\ sn.pc = "email"
    /\ IF pass.should_send_email
       THEN /\ pass' = [pass EXCEPT !.email_tried = TRUE, !.email_ok = delivered,
                                  !.email_sent = delivered]
            /\ sn' = IF delivered THEN [sn EXCEPT !.pc = "sms"]
                                  ELSE [sn EXCEPT !.pc = "raised", !.error = "EmailError"]
       ELSE /\ pass' = pass
            /\ sn' = [sn EXCEPT !.pc = "sms"]
    /\ UNCHANGED <<registry,noticeTypes, settings, notices, inst, language, cnt, gns, ret>>

SendNowEmail(delivered) ==
    /\ sn.pc = "email"
    /\ IF pass.should_send_email
       THEN /\ pass' = [pass EXCEPT !.email_tried = TRUE, !.email_ok = delivered,
                                  !.email_sent = delivered]
            /\ sn' = [sn EXCEPT !.pc = "sms",
                                !.email_failed = sn.email_failed \/ ~delivered]
       ELSE /\ pass' = pass
            /\ sn' = [sn EXCEPT !.pc = "sms"]
    /\ UNCHANGED <<registry,noticeTypes, settings, notices, inst, language, cnt, gns, ret>>

\* lines 401-412: the SMS channel; delivered is whether messages.create returned
SendNowSms(delivered) ==
    /\ sn.pc = "sms"
    /\ IF pass.should_send_sms
       THEN pass' = [pass EXCEPT !.sms_tried = TRUE, !.sms_ok = delivered,
                               !.sms_sent = delivered]
       ELSE pass' = pass
    /\ sn' = NextPass(sn)
    /\ language' = LanguageAfter(sn', language)
    /\ UNCHANGED <<registry,noticeTypes, settings, notices, inst, cnt, gns, ret>>

\* the call is over: it returned, or the failure reached the caller
SendNowReturn ==
    /\ sn.pc \in {"done", "raised"}
    /\ sn' = IdleCall
    /\ pass' = NoPass
    /\ UNCHANGED <<registry,noticeTypes, settings, notices, inst, language, cnt, gns, ret>>

----------------------------------------------------------------------------
(* queue and send (lines 418-453) *)

NoSend == [via |-> "", queue_flag |-> FALSE, now_flag |-> FALSE, path |-> "", error |-> ""]

\* lines 444-452: the list queue pickles, one (user pk, label, extra_context,
\* on_site, sender) tuple per user in the order of users.  A user is held by
\* its pk throughout; extra_context is the empty dictionary.
QueuedNotices(users, label, on_site, sender) ==
    [i \in 1..Len(users) |-> <<users[i], label, "{}", on_site, sender>>]

\* line 453: pickle.dumps(notices).encode("base64"), then save one
\* NoticeQueueBatch row.  encodes tells whether the pickled string has the
\* encode method with a base64 codec: a Python 2 str has; Python 3 bytes has
\* no encode, and AttributeError is raised before the row is built.
queue(B, users, label, on_site, sender, encodes) ==
    IF encodes
    THEN [batches |-> Append(B, QueuedNotices(users, label, on_site, sender)), error |-> ""]
    ELSE [batches |-> B, error |-> "AttributeError"]

\* lines 429 and 434: return queue(*args, **kwargs)
QueuePath(call, users, label, on_site, sender, encodes) ==
    /\ Len(queueBatches) < MaxBatches
    /\ LET q == queue(queueBatches, users, label, on_site, sender, encodes) IN
        /\ queueBatches' = q.batches
        /\ snd' = [call EXCEPT !.path = "queue", !.error = q.error]
    /\ UNCHANGED <<noticeTypes, settings, notices, inst, language, sn, pass, cnt, gns, ret>>

\* lines 431 and 436: return send_now(*args, **kwargs)
SendNowPath(call, users, label, on_site, sender) ==
    /\ SendNowEnter(users, label, on_site, sender, FALSE, FALSE)
    /\ snd' = [call EXCEPT !.path = "send_now"]
    /\ UNCHANGED queueBatches

\* send without the test of now_flag: only queue_flag and QUEUE_ALL decide
SendEnterIgnoringNow(users, label, on_site, sender, queue_flag, now_flag, encodes) ==
    /\ sn.pc = "idle"
    /\ LET call == [NoSend EXCEPT !.via = "send", !.queue_flag = queue_flag,
                                  !.now_flag = now_flag]
       IN  IF queue_flag /\ now_flag
           THEN /\ snd' = [call EXCEPT !.path = "none", !.error = "AssertionError"]
                /\ UNCHANGED <<queueBatches, noticeTypes, settings, notices, inst,
                               language, sn, pass, cnt, gns, ret>>
           ELSE IF queue_flag \/ QUEUE_ALL
                THEN QueuePath(call, users, label, on_site, sender, encodes)
                ELSE SendNowPath(call, users, label, on_site, sender)
    /\ UNCHANGED <<observedItems, QUEUE_ALL>>

\* send (lines 425-436), whoever calls it
SendEnter(users, label, on_site, sender, queue_flag, now_flag, encodes) ==
    /\ sn.pc = "idle"
    /\ LET call == [NoSend EXCEPT !.via = "send", !.queue_flag = queue_flag,
                                  !.now_flag = now_flag]
       IN  IF queue_flag /\ now_flag                \* line 427: the assert fails
           THEN /\ snd' = [call EXCEPT !.path = "none", !.error = "AssertionError"]
                /\ UNCHANGED <<queueBatches, noticeTypes, settings, notices, inst,
                               language, sn, pass, cnt, gns, ret>>
           ELSE IF queue_flag
                THEN QueuePath(call, users, label, on_site, sender, encodes)
                ELSE IF now_flag
                     THEN SendNowPath(call, users, label, on_site, sender)
                     ELSE IF QUEUE_ALL
                          THEN QueuePath(call, users, label, on_site, sender, encodes)
                          ELSE SendNowPath(call, users, label, on_site, sender)
    /\ UNCHANGED <<observedItems, QUEUE_ALL>>

\* send called by the application
Send(users, label, on_site, sender, queue_flag, now_flag, encodes) ==
    /\ SendEnter(users, label, on_site, sender, queue_flag, now_flag, encodes)
    /\ UNCHANGED <<son, obs>>

\* queue called by the application
Queue(users, label, on_site, sender, encodes) ==
    /\ sn.pc = "idle"
    /\ QueuePath([NoSend EXCEPT !.via = "queue"], users, label, on_site, sender, encodes)
    /\ UNCHANGED <<observedItems, QUEUE_ALL, son, obs>>

----------------------------------------------------------------------------
(* ObservedItem and the observation functions (lines 455-539) *)

\* an observed object is held by its (content_type, object_id), here one value
ObservedItem(user, object_id, notice_type, signal) ==
    [user |-> user, object_id |-> object_id, notice_type |-> notice_type, signal |-> signal]

\* ObservedItemManager.all_for: the keys of the rows, latest first
all_for(O, observed, signal) ==
    Descending({i \in DOMAIN O : O[i].object_id = observed /\ O[i].signal = signal})

\* get_for that does not filter on signal
get_for_any_signal(O, observed, observer, signal) ==
    LET rows == {i \in DOMAIN O : O[i].object_id = observed /\ O[i].user = observer} IN
    IF rows = {} THEN [error |-> "DoesNotExist", pk |-> 0]
    ELSE IF Cardinality(rows) > 1 THEN [error |-> "MultipleObjectsReturned", pk |-> 0]
    ELSE [error |-> "", pk |-> CHOOSE i \in rows : TRUE]

\* ObservedItemManager.get_for: self.get(...) returns the one matching row
\* or raises DoesNotExist or MultipleObjectsReturned
get_for(O, observed, observer, signal) ==
    LET rows == {i \in DOMAIN O : /\ O[i].object_id = observed
                                  /\ O[i].user = observer
                                  /\ O[i].signal = signal} IN
    IF rows = {} THEN [error |-> "DoesNotExist", pk |-> 0]
    ELSE IF Cardinality(rows) > 1 THEN [error |-> "MultipleObjectsReturned", pk |-> 0]
    ELSE [error |-> "", pk |-> CHOOSE i \in rows : TRUE]

\* observed_item.delete(): the row is gone; the rows after it move up (no
\* caller holds a key across a delete)
Delete(O, pk) == [i \in 1..(Len(O) - 1) |-> IF i < pk THEN O[i] ELSE O[i + 1]]

NoAnswer ==
    [op |-> "", observed |-> 0, observer |-> NoUser, signal |-> "", value |-> FALSE,
     error |-> ""]

Answer(op, observed, observer, signal, value, error) ==
    [op |-> op, observed |-> observed, observer |-> observer, signal |-> signal,
     value |-> value, error |-> error]

IdleObservation ==
    [pc |-> "idle", observed |-> 0, signal |-> "", items |-> <<>>, idx |-> 0,
     paths |-> <<>>]

\* observe (lines 500-510)
Observe(observed, observer, notice_type_label, signal) ==
    /\ sn.pc = "idle" /\ son.pc = "idle"
    /\ Len(observedItems) < MaxItems
    /\ LET rows == TypeRows(noticeTypes, notice_type_label) IN
        IF Cardinality(rows) = 1
        THEN /\ observedItems' = Append(observedItems,
                    ObservedItem(observer, observed, CHOOSE i \in rows : TRUE, signal))
             /\ obs' = Answer("observe", observed, observer, signal, TRUE, "")
        ELSE /\ observedItems' = observedItems
             /\ obs' = Answer("observe", observed, observer, signal, FALSE,
                    IF rows = {} THEN "DoesNotExist" ELSE "MultipleObjectsReturned")
    /\ UNCHANGED <<noticeTypes, settings, notices, inst, language, sn, pass, cnt, gns, ret,
                   queueBatches, QUEUE_ALL, snd, son>>

\* stop_observing (lines 512-517)
StopObserving(observed, observer, signal) ==
    /\ sn.pc = "idle" /\ son.pc = "idle"
    /\ LET g == get_for(observedItems, observed, observer, signal) IN
        /\ observedItems' = IF g.error = "" THEN Delete(observedItems, g.pk)
                                            ELSE observedItems
        /\ obs' = Answer("stop_observing", observed, observer, signal, FALSE, g.error)
    /\ UNCHANGED <<noticeTypes, settings, notices, inst, language, sn, pass, cnt, gns, ret,
                   queueBatches, QUEUE_ALL, snd, son>>

\* is_observing with no "except ObservedItem.MultipleObjectsReturned"
IsObservingStrict(observed, observer, signal) ==
    /\ sn.pc = "idle" /\ son.pc = "idle"
    /\ LET g == get_for(observedItems, observed, observer, signal) IN
        obs' = IF observer = AnonymousUser
               THEN Answer("is_observing", observed, observer, signal, FALSE, "")
               ELSE IF g.error = "MultipleObjectsReturned"
                    THEN Answer("is_observing", observed, observer, signal, FALSE, g.error)
                    ELSE Answer("is_observing", observed, observer, signal, g.error = "", "")
    /\ UNCHANGED <<noticeTypes, settings, notices, inst, language, sn, pass, cnt, gns, ret,
                   queueBatches, observedItems, QUEUE_ALL, snd, son>>

\* is_observing (lines 530-539)
IsObserving(observed, observer, signal) ==
    /\ sn.pc = "idle" /\ son.pc = "idle"
    /\ LET g == get_for(observedItems, observed, observer, signal) IN
        obs' = IF observer = AnonymousUser
               THEN Answer("is_observing", observed, observer, signal, FALSE, "")
               ELSE IF g.error = "DoesNotExist"
                    THEN Answer("is_observing", observed, observer, signal, FALSE, "")
                    ELSE Answer("is_observing", observed, observer, signal, TRUE, "")
    /\ UNCHANGED <<noticeTypes, settings, notices, inst, language, sn, pass, cnt, gns, ret,
                   queueBatches, observedItems, QUEUE_ALL, snd, son>>

\* send_observation_notices_for, lines 523-525: the registrations to notify
SonCall(observed, signal) ==
    /\ sn.pc = "idle" /\ son.pc = "idle"
    /\ son' = [IdleObservation EXCEPT !.pc = "loop", !.observed = observed,
                  !.signal = signal, !.items = all_for(observedItems, observed, signal),
                  !.idx = 1]
    /\ UNCHANGED <<noticeTypes, settings, notices, inst, language, sn, pass, cnt, gns, ret,
                   queueBatches, observedItems, QUEUE_ALL, snd, obs>>

\* lines 526-527 and 494-498: observed_item.send_notice(extra_context), which
\* calls send([self.user], self.notice_type.label, extra_context)
SonSend(encodes) ==
    /\ son.pc = "loop" /\ son.idx <= Len(son.items)
    /\ LET item == observedItems[son.items[son.idx]] IN
        SendEnter(<<item.user>>, noticeTypes[item.notice_type].label, TRUE, NoUser,
                  FALSE, FALSE, encodes)
    /\ son' = [son EXCEPT !.idx = son.idx + 1,
                          !.paths = Append(son.paths, snd'.path),
                          !.pc = IF snd'.error # "" THEN "raised"
                                 ELSE IF snd'.path = "send_now" THEN "sending" ELSE "loop"]
    /\ UNCHANGED obs

\* the send_now that send_notice started is over
SonResume ==
    /\ son.pc = "sending" /\ sn.pc \in {"done", "raised"}
    /\ son' = [son EXCEPT !.pc = IF sn.pc = "raised" THEN "raised" ELSE "loop"]
    /\ sn' = IdleCall
    /\ pass' = NoPass
    /\ UNCHANGED <<noticeTypes, settings, notices, inst, language, cnt, gns, ret,
                   queueBatches, observedItems, QUEUE_ALL, snd, obs>>

\* line 528: return observed_items
SonReturn ==
    /\ son.pc = "loop" /\ son.idx > Len(son.items)
    /\ son' = [son EXCEPT !.pc = "done"]
    /\ UNCHANGED <<noticeTypes, settings, notices, inst, language, sn, pass, cnt, gns, ret,
                   queueBatches, observedItems, QUEUE_ALL, snd, obs>>

\* the caller has the result, or the failure
SonExit ==
    /\ son.pc \in {"done", "raised"}
    /\ son' = IdleObservation
    /\ UNCHANGED <<noticeTypes, settings, notices, inst, language, sn, pass, cnt, gns, ret,
                   queueBatches, observedItems, QUEUE_ALL, snd, obs>>

----------------------------------------------------------------------------
(* should_send and get_all_notification_settings called by the application *)

\* get_all_notification_settings (lines 118-120): the user's stored rows
get_all_notification_settings(S, user) == {r \in S : r.user = user}

\* should_send (lines 129-136) as one call
ShouldSend(user, notice_type, medium, objects, custom) ==
    /\ LET r == should_send(settings, user, notice_type, medium, objects, custom) IN
        /\ settings' = r.settings
        /\ ret' = [op |-> "should_send", value |-> r.send]
    /\ UNCHANGED <<registry, noticeTypes, notices, inst, language, sn, pass, cnt, gns>>

\* get_all_notification_settings as one call; value: whether it returned rows
GetAllSettings(user) ==
    /\ ret' = [op |-> "get_all_notification_settings",
               value |-> get_all_notification_settings(settings, user) # {}]
    /\ UNCHANGED <<registry, noticeTypes, settings, notices, inst, language, sn, pass,
                   cnt, gns>>

----------------------------------------------------------------------------
(* Specification of the dispatch: one send_now call, made in a database    *)
(* that bootstrap and earlier traffic have left: the notice type exists,   *)
(* some users have their preference rows, a language is active.            *)

BootTypes ==
    {<<NoticeType("welcome", "Welcome", "Welcome message", d)>> : d \in Defaults}

\* the rows get_notification_setting has created for user under the types T
StoredRows(T, user) ==
    {NoticeSetting(user, 1, m, DefaultSend(m, TypeInstance(T, 1))) : m \in {"1", "3"}}

InitTables ==
    /\ inst = [h \in Handles |-> NoInstance]
    /\ sn = IdleCall
    /\ cnt = [c \in Callers |-> IdleCreate]
    /\ gns = [c \in Callers |-> IdleGet]
    /\ pass = NoPass
    /\ ret = NoReturn
    /\ queueBatches = <<>>
    /\ observedItems = <<>>
    /\ snd = NoSend
    /\ son = IdleObservation
    /\ obs = NoAnswer

\* the process runs without NOTIFICATION_QUEUE_ALL (the default of line 33)
InitProcess ==
    /\ InitTables
    /\ QUEUE_ALL = FALSE

Init ==
    /\ noticeTypes \in BootTypes
    /\ settings \in {UNION {StoredRows(noticeTypes, u) : u \in U} : U \in {{}, Users}}
    /\ notices = <<>>
    /\ language \in Languages
    /\ InitProcess

Next ==
    \/ \E users \in RecipientLists, label \in {"welcome", "ghost"}, on_site \in BOOLEAN,
          sender \in {NoUser}, obj_instance \in {TRUE}, force_send \in BOOLEAN :
            SendNowCall(users, label, on_site, sender, obj_instance, force_send)
    \/ \E is_active, email, sms \in BOOLEAN, custom \in CustomAnswers :
            SendNowSelect(is_active, email, sms, custom)
    \/ \E lang \in Languages \cup {NoLanguage}, rendered \in BOOLEAN :
            SendNowRender(lang, rendered)
    \/ \E delivered \in BOOLEAN : SendNowEmail(delivered)
    \/ \E delivered \in BOOLEAN : SendNowSms(delivered)

Spec == Init /\ [][Next]_vars

----------------------------------------------------------------------------
(* Specification of the ledger: send_now calls that each deliver one       *)
(* notice by forced email (the system's to user 1, user 1's to user 2),    *)
(* and between the calls the callers' reads, archive() and is_unseen().    *)

InitLedger ==
    /\ noticeTypes = <<NoticeType("welcome", "Welcome", "Welcome message", 2)>>
    /\ settings = {}
    /\ notices = <<>>
    /\ language = "en"
    /\ InitProcess

NextLedger ==
    \/ \E call \in {<<1, NoUser>>, <<2, 1>>}, on_site \in BOOLEAN :
            SendNowCall(<<call[1]>>, "welcome", on_site, call[2], FALSE, TRUE)
    \/ SendNowSelect(TRUE, TRUE, FALSE, [has |-> FALSE, Email |-> FALSE, Display |-> FALSE, SMS |-> FALSE])
    \/ SendNowRender(NoLanguage, TRUE)
    \/ SendNowEmail(TRUE)
    \/ SendNowSms(TRUE)
    \/ SendNowReturn
    \/ \E h \in Handles, user \in Users, k \in 1..MaxNotices :
            sn.pc = "idle" /\ Fetch(h, user, FALSE, "None", "None", FALSE, k)
    \/ \E h \in Handles : sn.pc = "idle" /\ Archive(h)
    \/ \E h \in Handles : sn.pc = "idle" /\ IsUnseen(h)

SpecLedger == InitLedger /\ [][NextLedger]_vars

----------------------------------------------------------------------------
(* Specification of the preference lookup: two callers run                 *)
(* get_notification_setting, their steps interleaved, while the notice     *)
(* type stays as bootstrap left it.                                        *)

InitSettings ==
    /\ noticeTypes \in BootTypes
    /\ settings = {}
    /\ notices = <<>>
    /\ language = "en"
    /\ InitProcess

NextSettings ==
    \/ \E c \in Callers, user \in Users, medium \in DOMAIN NOTICE_MEDIA :
            GnsCall(c, user, TypeInstance(noticeTypes, 1), medium)
    \/ \E c \in Callers : GnsSave(c)
    \/ \E c \in Callers : GnsReget(c)
    \/ \E c \in Callers : GnsReturn(c)

SpecSettings == InitSettings /\ [][NextSettings]_vars

----------------------------------------------------------------------------
(* Specification of the bootstrap: one caller makes create_notice_type     *)
(* calls one after the other, on an empty NoticeType table.                *)

InitTypes ==
    /\ noticeTypes = <<>>
    /\ settings = {}
    /\ notices = <<>>
    /\ language = "en"
    /\ InitProcess

NextTypes ==
    \/ \E label \in Labels, display \in Displays, description \in Descriptions,
          default \in Defaults :
            CntCall(1, label, display, description, default)
    \/ CntSave(1)
    \/ CntInsert(1)
    \/ CntReturn(1)

SpecTypes == InitTypes /\ [][NextTypes]_vars

----------------------------------------------------------------------------
(* Specification of a concurrent bootstrap: two processes call             *)
(* create_notice_type for the label "welcome", their lookups and saves     *)
(* interleaved.                                                            *)

NextTypesRace ==
    \/ \E c \in Callers, default \in Defaults :
            CntCall(c, "welcome", "Welcome", "Welcome message", default)
    \/ \E c \in Callers : CntSave(c)
    \/ \E c \in Callers : CntInsert(c)
    \/ \E c \in Callers : CntReturn(c)

SpecTypesRace == InitTypes /\ [][NextTypesRace]_vars

----------------------------------------------------------------------------
(* Specification of send and queue: the application calls send with every  *)
(* combination of flags, and queue, in a process with or without           *)
(* NOTIFICATION_QUEUE_ALL; the dispatches that send starts run to the end.  *)

NoCustom == [has |-> FALSE, Email |-> FALSE, Display |-> FALSE, SMS |-> FALSE]

InitSend ==
    /\ noticeTypes = <<NoticeType("welcome", "Welcome", "Welcome message", 2)>>
    /\ settings = {}
    /\ notices = <<>>
    /\ language = "en"
    /\ InitTables
    /\ QUEUE_ALL \in BOOLEAN

NextSend ==
    \/ \E users \in {<<1>>, <<2, 1>>}, on_site, queue_flag, now_flag, encodes \in BOOLEAN :
            Send(users, "welcome", on_site, NoUser, queue_flag, now_flag, encodes)
    \/ \E users \in {<<>>, <<1>>, <<2, 1>>}, on_site, encodes \in BOOLEAN :
            Queue(users, "welcome", on_site, NoUser, encodes)
    \/ \E is_active \in BOOLEAN : SendNowSelect(is_active, TRUE, FALSE, NoCustom)
    \/ SendNowRender(NoLanguage, TRUE)
    \/ \E delivered \in BOOLEAN : SendNowEmail(delivered)
    \/ SendNowSms(TRUE)
    \/ SendNowReturn

SpecSend == InitSend /\ [][NextSend]_vars

----------------------------------------------------------------------------
(* Specification of the observations: users register on objects, ask       *)
(* whether they observe, stop observing, and the objects' signals send the *)
(* observation notices, in a process with or without                       *)
(* NOTIFICATION_QUEUE_ALL.                                                 *)

\* the (object, signal) pairs the application observes
Observations == {<<1, "post_save">>, <<1, "post_delete">>, <<2, "post_save">>}

\* the observers that ask and stop; the registrations of the other user stand
Askers == {1, AnonymousUser}

NextObserve ==
    \/ \E o \in Observations, observer \in Users, label \in {"welcome", "ghost"} :
            Observe(o[1], observer, label, o[2])
    \/ \E o \in Observations, observer \in Askers \cap Users :
            StopObserving(o[1], observer, o[2])
    \/ \E o \in Observations, observer \in Askers :
            IsObserving(o[1], observer, o[2])
    \/ \E o \in Observations : SonCall(o[1], o[2])
    \/ \E encodes \in BOOLEAN : SonSend(encodes)
    \/ SonResume
    \/ SonReturn
    \/ SonExit
    \/ SendNowSelect(TRUE, TRUE, FALSE, NoCustom)
    \/ SendNowRender(NoLanguage, TRUE)
    \/ SendNowEmail(TRUE)
    \/ SendNowSms(TRUE)

SpecObserve == InitSend /\ [][NextObserve]_vars

----------------------------------------------------------------------------
(* Specification of the stored preferences: bootstrap creates the notice   *)
(* type and later changes its default, while the preferences of a user     *)
(* are looked up, by get_notification_setting step by step, by should_send *)
(* and by get_all_notification_settings.                                   *)

\* the media the application asks about
AskedMedia == {"1", "3"}

\* the calls of should_send: without and with an obj_instance, and for an
\* obj_instance the answers of the permission check
AskedObjects ==
    {<<FALSE, NoCustom>>, <<TRUE, NoCustom>>,
     <<TRUE, [has |-> TRUE, Email |-> TRUE, Display |-> FALSE, SMS |-> FALSE]>>,
     <<TRUE, [has |-> TRUE, Email |-> FALSE, Display |-> FALSE, SMS |-> TRUE]>>}

NextPrefs ==
    \/ \E default \in Defaults :
            CntCall(1, "welcome", "Welcome", "Welcome message", default)
    \/ CntSave(1)
    \/ CntInsert(1)
    \/ CntReturn(1)
    \/ \E i \in DOMAIN noticeTypes, medium \in AskedMedia :
            GnsCall(1, 1, TypeInstance(noticeTypes, i), medium)
    \/ GnsSave(1)
    \/ GnsReget(1)
    \/ GnsReturn(1)
    \/ \E i \in DOMAIN noticeTypes, medium \in AskedMedia, o \in AskedObjects :
            ShouldSend(1, TypeInstance(noticeTypes, i), medium, o[1], o[2])
    \/ GetAllSettings(1)

SpecPrefs == InitTypes /\ [][NextPrefs]_vars

----------------------------------------------------------------------------
(* Claims about the dispatch *)

\* the pass recorded in pass has run to its end
PassOver == pass.idx # 0 /\ (sn.idx > pass.idx \/ sn.pc = "done")

\* the Notice rows created since the recorded pass began
PassNotices == {i \in DOMAIN notices : i > pass.notices_before}

\* C2: dispatch isolation.  A failed email or SMS send never ends the call
\* with a failure; in every pass that has run to its end, whatever failed in
\* this pass or in earlier ones, each selected channel was attempted and the
\* user's Notice row was created; the email_sent / sms_sent event was emitted
\* exactly when the corresponding send succeeded; and a call that returns has
\* run a pass for every recipient.
C2_DispatchIsolation ==
    /\ (pass.email_tried /\ ~pass.email_ok) => ~(sn.pc = "raised" /\ sn.idx = pass.idx)
    /\ (pass.sms_tried /\ ~pass.sms_ok) => sn.pc # "raised"
    /\ pass.email_sent <=> (pass.email_tried /\ pass.email_ok)
    /\ pass.sms_sent <=> (pass.sms_tried /\ pass.sms_ok)
    /\ (pass.idx # 0 /\ sn.pc = "sms") =>
            (pass.should_send_email <=> pass.email_tried)
    /\ PassOver =>
            /\ pass.should_send_email <=> pass.email_tried
            /\ pass.should_send_sms <=> pass.sms_tried
            /\ (pass.should_send_email \/ pass.should_send_sms) =>
                    \E i \in PassNotices : notices[i].recipient = pass.user
    /\ sn.pc = "done" => pass.idx = Len(sn.users)

\* C2 witness: two recipients, an earlier email send failed, the second
\* user's email was sent, its event emitted, and both have a Notice row
C2_Witness ==
    /\ sn.pc = "done" /\ Len(sn.users) = 2 /\ sn.users[1] # sn.users[2]
    /\ sn.email_failed /\ pass.idx = 2 /\ pass.email_sent
    /\ \A u \in Users : \E i \in DOMAIN notices : notices[i].recipient = u

\* C3: when a send_now call ends, by returning or by a failure that reaches
\* the caller, the active language is the one active when it was entered.
C3_LanguageRestored ==
    sn.pc \in {"done", "raised"} => language = sn.entry_language

\* C4: for a recipient with is_active false no channel is selected, no email
\* or SMS send is attempted and no Notice row is created, whatever the
\* stored preferences, the type's default, force_send and the addresses.
C4_InactiveGetsNothing ==
    (pass.idx # 0 /\ ~pass.is_active) =>
        /\ ~pass.should_send_email /\ ~pass.should_send_sms
        /\ ~pass.email_tried /\ ~pass.sms_tried
        /\ PassNotices = {}
        /\ PassOver

\* C4 witness: an inactive user with an email address, force_send set and a
\* stored preference to send, passed over
C4_Witness ==
    /\ pass.idx # 0 /\ ~pass.is_active /\ pass.email /\ sn.force_send
    /\ \E r \in settings : r.user = pass.user /\ r.medium = "1" /\ r.send
    /\ PassOver

\* C5: in a pass that has run to its end exactly one Notice row was created,
\* for this user, if the email or the SMS channel was selected, and none
\* otherwise, whether the sends succeeded or failed; and a call that returns
\* has created as many rows as it selected recipients.
C5_OneNoticePerSelected ==
    /\ PassOver =>
            IF pass.should_send_email \/ pass.should_send_sms
            THEN /\ Cardinality(PassNotices) = 1
                 /\ \A i \in PassNotices : notices[i].recipient = pass.user
            ELSE PassNotices = {}
    /\ sn.pc = "done" => Len(notices) = sn.entry_notices + sn.selected

\* C5 witness: the same user twice, both occurrences selected, the sends of
\* the second failed, two rows
C5_Witness ==
    /\ sn.pc = "done" /\ Len(sn.users) = 2 /\ sn.users[1] = sn.users[2]
    /\ sn.selected = 2 /\ Len(notices) = sn.entry_notices + 2
    /\ pass.sms_tried /\ ~pass.sms_ok /\ ~pass.should_send_email

----------------------------------------------------------------------------
(* Claims about the ledger *)

\* C6: notices_for(user) with the default archived=False returns no archived
\* notice, as recipient or as sender, and so do received() and sent();
\* unseen_count_for() counts the unseen notices that are not archived.
C6_DefaultHidesArchived ==
    \A user \in Users :
        /\ \A sent_ \in BOOLEAN :
             \A i \in Range(notices_for(notices, user, FALSE, "None", "None", sent_)) :
                ~notices[i].archived
        /\ \A i \in Range(received(notices, user, FALSE, "None", "None")) :
                ~notices[i].archived
        /\ \A i \in Range(sent(notices, user, FALSE, "None", "None")) :
                ~notices[i].archived
        /\ unseen_count_for(notices, user, FALSE, "None", FALSE) =
                Cardinality({i \in DOMAIN notices :
                    /\ notices[i].recipient = user
                    /\ notices[i].unseen /\ ~notices[i].archived})

\* C7 as stated, for the users that have notices: notices_for(user,
\* unseen=True) is a strict subset of notices_for(user, unseen=None) and
\* holds unseen notices only.
C7_StrictSubset ==
    \A user \in Users :
        LET none == Range(notices_for(notices, user, FALSE, "None", "None", FALSE))
            yes  == Range(notices_for(notices, user, FALSE, "True", "None", FALSE))
        IN  none # {} =>
                /\ yes \subseteq none /\ yes # none
                /\ \A i \in yes : notices[i].unseen

\* C7 amended: for all other arguments alike, notices_for(unseen=None) holds
\* every unarchived notice of the user, seen or unseen; unseen=True returns
\* exactly the unseen notices of that result and unseen=False exactly the
\* seen ones; so unseen=True is a subset, strict exactly when the result
\* holds a seen notice.
C7_UnseenFilter ==
    \A user \in Users, archived, sent_ \in BOOLEAN, on_site \in Optional :
        LET none == Range(notices_for(notices, user, archived, "None", on_site, sent_))
            yes  == Range(notices_for(notices, user, archived, "True", on_site, sent_))
            no   == Range(notices_for(notices, user, archived, "False", on_site, sent_))
        IN  /\ \A i \in DOMAIN notices :
                    ( /\ (IF sent_ THEN notices[i].sender ELSE notices[i].recipient) = user
                      /\ ~notices[i].archived
                      /\ on_site = "None" )
                        => i \in none
            /\ yes = {i \in none : notices[i].unseen}
            /\ no = {i \in none : ~notices[i].unseen}
            /\ (yes # none) <=> (\E i \in none : ~notices[i].unseen)

\* C7 witness: a user with a seen and an unseen notice, and a user all of
\* whose notices are unseen
C7_Witness ==
    /\ \E i, j \in DOMAIN notices :
            /\ notices[i].recipient = notices[j].recipient
            /\ notices[i].unseen /\ ~notices[j].unseen
            /\ Len(notices_for(notices, notices[i].recipient, FALSE, "True", "None", FALSE)) = 1
            /\ Len(notices_for(notices, notices[i].recipient, FALSE, "None", "None", FALSE)) = 2
    /\ ret.op = "is_unseen" /\ ret.value

\* C8: is_unseen returns the value the row's unseen flag had before the
\* call and leaves it false, and no step ever moves a notice's unseen flag
\* from false back to true.
C8_UnseenOneWay ==
    [][ /\ \A i \in DOMAIN notices : ~notices[i].unseen => ~notices'[i].unseen
        /\ \A h \in Handles :
                IsUnseen(h) => /\ ret'.value = notices[inst[h].pk].unseen
                               /\ ~notices'[inst[h].pk].unseen ]_vars

\* C9: archive leaves archived true, changes no other field of the notice
\* and no other notice, and no step ever moves a notice's archived flag from
\* true back to false.
C9_ArchiveIrreversible ==
    [][ /\ \A i \in DOMAIN notices : notices[i].archived => notices'[i].archived
        /\ \A h \in Handles :
                Archive(h) => /\ notices'[inst[h].pk].archived
                              /\ notices'[inst[h].pk].unseen = notices[inst[h].pk].unseen
                              /\ \A j \in DOMAIN notices :
                                    j # inst[h].pk => notices'[j] = notices[j] ]_vars

----------------------------------------------------------------------------
(* Claims about the preference lookup *)

SameTriple(g, h) ==
    g.user = h.user /\ g.notice_type.id = h.notice_type.id /\ g.medium = h.medium

\* C1: a get_notification_setting call that found no row returns a setting
\* whose send is NOTICE_MEDIA_DEFAULTS[medium] <= notice_type.default; under
\* every interleaving of two callers no call ends with a failure, callers of
\* the same triple return the same send, and after a call exactly one row of
\* its triple exists, the one it returned.
C1_LazySettingRace ==
    /\ UniqueTogether(settings)
    /\ \A c \in Callers :
        /\ gns[c].pc # "raised"
        /\ gns[c].pc = "done" =>
            /\ SettingRows(settings, gns[c].user, gns[c].notice_type.id, gns[c].medium)
                    = {gns[c].setting}
            /\ gns[c].missing =>
                    (gns[c].setting.send <=> DefaultSend(gns[c].medium, gns[c].notice_type))
    /\ \A c, d \in Callers :
        (gns[c].pc = "done" /\ gns[d].pc = "done" /\ SameTriple(gns[c], gns[d]))
            => gns[c].setting.send = gns[d].setting.send

\* C1 witness: both callers found the same triple missing, one inserted the
\* row, the other lost the race and returned the winner's row
C1_Witness ==
    /\ gns[1].pc = "done" /\ gns[2].pc = "done" /\ SameTriple(gns[1], gns[2])
    /\ gns[1].missing /\ gns[2].missing
    /\ gns[1].inserted /\ ~gns[2].inserted
    /\ gns[1].setting = gns[2].setting

----------------------------------------------------------------------------
(* Claims about the bootstrap *)

Arguments(call) == NoticeType(call.label, call.display, call.description, call.default)

Row(instance) ==
    NoticeType(instance.label, instance.display, instance.description, instance.default)

\* what holds when a create_notice_type call of a sequential series is over
UpsertDone(call) ==
    LET rows == TypeRows(noticeTypes, call.label) IN
    /\ Cardinality(rows) = 1
    /\ \A i \in rows : noticeTypes[i] = Arguments(call)
    /\ IF call.found.id = 0
       THEN Len(noticeTypes) = call.rows_before + 1 /\ call.saved
       ELSE /\ Len(noticeTypes) = call.rows_before
            /\ rows = {call.found.id}
            /\ call.saved <=> (Row(call.found) # Arguments(call))

\* C10: in a sequential series of create_notice_type calls there is at most
\* one row per label; when a call is over there is exactly one row of its
\* label and it holds the call's arguments; a call on an existing row with
\* equal values writes nothing, one with different values saves that row,
\* and neither adds a row; no step changes a row of another label.
C10_IdempotentUpsert ==
    /\ [](\A label \in Labels : Cardinality(TypeRows(noticeTypes, label)) <= 1)
    /\ [](cnt[1].pc = "done" => UpsertDone(cnt[1]))
    /\ [][ \A i \in DOMAIN noticeTypes :
                noticeTypes'[i] # noticeTypes[i] =>
                    /\ cnt[1].pc = "save"
                    /\ noticeTypes[i].label = cnt[1].label
                    /\ noticeTypes'[i].label = cnt[1].label ]_vars

\* C10 witness: with two labels in the table, a call on an existing label
\* whose default differs has saved the row; the other label's row stands
C10_Witness ==
    /\ cnt[1].pc = "done" /\ cnt[1].found.id # 0 /\ cnt[1].saved
    /\ cnt[1].found.default # cnt[1].default
    /\ cnt[1].found.display = cnt[1].display
    /\ Len(noticeTypes) = 2
    /\ noticeTypes[cnt[1].found.id] = Arguments(cnt[1])

\* C16: in every state there is at most one NoticeType row per label, also
\* when two create_notice_type calls for the same new label interleave.
C16_OneRowPerLabel ==
    \A label \in Labels : Cardinality(TypeRows(noticeTypes, label)) <= 1

----------------------------------------------------------------------------
(* Claims about send and queue *)

SendCalls == {<<1>>, <<2, 1>>}

\* C11: send takes the queue path with queue=True and the send_now path with
\* now=True, whatever QUEUE_ALL is; with neither flag the queue path iff
\* QUEUE_ALL; with both flags it fails on the assertion and nothing runs: no
\* Notice, no batch, no pass of the dispatch.  The path taken is the one that
\* ran: the queue path adds the batch and starts no dispatch, the send_now
\* path starts the dispatch for these users and queues nothing.
C11_SendPath ==
    /\ [](snd.via = "send" =>
            /\ (snd.queue_flag /\ snd.now_flag) =>
                    (snd.path = "none" /\ snd.error = "AssertionError")
            /\ (snd.queue_flag /\ ~snd.now_flag) => snd.path = "queue"
            /\ (snd.now_flag /\ ~snd.queue_flag) => snd.path = "send_now"
            /\ (~snd.queue_flag /\ ~snd.now_flag) =>
                    snd.path = (IF QUEUE_ALL THEN "queue" ELSE "send_now"))
    /\ [][ \A users \in SendCalls, on_site, queue_flag, now_flag, encodes \in BOOLEAN :
            Send(users, "welcome", on_site, NoUser, queue_flag, now_flag, encodes) =>
                /\ snd'.path = "none" =>
                        UNCHANGED <<notices, queueBatches, settings, sn, pass, language>>
                /\ snd'.path = "queue" =>
                        /\ UNCHANGED <<notices, settings, sn, pass, language>>
                        /\ snd'.error = "" =>
                                queueBatches' = Append(queueBatches,
                                    QueuedNotices(users, "welcome", on_site, NoUser))
                /\ snd'.path = "send_now" =>
                        /\ queueBatches' = queueBatches
                        /\ sn'.pc = "select" /\ sn'.users = users ]_vars

\* C11 witness: in a process with QUEUE_ALL, a send with now=True has run
\* the dispatch to its end and created a Notice; nothing was queued
C11_Witness ==
    /\ QUEUE_ALL /\ snd.via = "send" /\ snd.now_flag /\ ~snd.queue_flag
    /\ snd.path = "send_now" /\ sn.pc = "done"
    /\ Len(notices) > 0 /\ queueBatches = <<>>

\* C15: queue persists exactly one NoticeQueueBatch row, holding one tuple
\* per user of the input in the input's order, raises nothing, creates no
\* Notice and no NoticeSetting row, starts no send and leaves the language.
C15_QueueEffect ==
    [][ \A users \in {<<>>, <<1>>, <<2, 1>>}, on_site, encodes \in BOOLEAN :
            Queue(users, "welcome", on_site, NoUser, encodes) =>
                /\ snd'.error = ""
                /\ queueBatches' = Append(queueBatches,
                                        QueuedNotices(users, "welcome", on_site, NoUser))
                /\ UNCHANGED <<notices, settings, language, sn, pass>> ]_vars

----------------------------------------------------------------------------
(* Claims about the observations *)

\* the rows of O registered for (observed, observer, signal)
Registered(O, observed, observer, signal) ==
    {i \in DOMAIN O : /\ O[i].object_id = observed
                      /\ O[i].user = observer
                      /\ O[i].signal = signal}

\* C12: send_observation_notices_for processes exactly the registrations of
\* (observed, signal) and dispatches each of them immediately, by send_now,
\* whatever the process configuration.
C12_ImmediateDispatch ==
    /\ \A k \in DOMAIN son.paths : son.paths[k] = "send_now"
    /\ son.pc = "done" =>
            /\ Range(son.items) = {i \in DOMAIN observedItems :
                    /\ observedItems[i].object_id = son.observed
                    /\ observedItems[i].signal = son.signal}
            /\ Len(son.paths) = Len(son.items)

\* C13: is_observing raises on no lookup outcome and returns true iff the
\* observer is not anonymous and at least one ObservedItem of (observed,
\* observer, signal) exists: one or several; it leaves the registry alone.
C13_IsObserving ==
    [][ \A o \in Observations, observer \in Askers :
            IsObserving(o[1], observer, o[2]) =>
                /\ obs'.error = ""
                /\ obs'.value <=>
                        /\ observer # AnonymousUser
                        /\ Registered(observedItems, o[1], observer, o[2]) # {}
                /\ observedItems' = observedItems ]_vars

\* C13 witness: is_observing has answered true for a registration made twice
C13_Witness ==
    /\ obs.op = "is_observing" /\ obs.value /\ obs.error = ""
    /\ Cardinality(Registered(observedItems, obs.observed, obs.observer, obs.signal)) = 2

\* C14: stop_observing with no matching ObservedItem fails with DoesNotExist
\* and removes nothing.
C14_StopNotFound ==
    [][ \A o \in Observations, observer \in Askers \cap Users :
            ( /\ StopObserving(o[1], observer, o[2])
              /\ Registered(observedItems, o[1], observer, o[2]) = {} ) =>
                /\ obs'.error = "DoesNotExist"
                /\ observedItems' = observedItems ]_vars

\* C14 witness: stop_observing has failed with DoesNotExist while the same
\* observer's registration on the same object for another signal stands
C14_Witness ==
    /\ obs.op = "stop_observing" /\ obs.error = "DoesNotExist"
    /\ Registered(observedItems, obs.observed, obs.observer, obs.signal) = {}
    /\ \E i \in DOMAIN observedItems :
            /\ observedItems[i].object_id = obs.observed
            /\ observedItems[i].user = obs.observer
            /\ observedItems[i].signal # obs.signal

\* C20: stop_observing called while at least one matching ObservedItem
\* exists completes without error, and afterwards no matching item is left
\* (is_observing answers false).
C20_StopWhenObserving ==
    [][ \A o \in Observations, observer \in Askers \cap Users :
            ( /\ StopObserving(o[1], observer, o[2])
              /\ Registered(observedItems, o[1], observer, o[2]) # {} ) =>
                /\ obs'.error = ""
                /\ Registered(observedItems', o[1], observer, o[2]) = {} ]_vars

----------------------------------------------------------------------------
(* Further claims about the dispatch *)

\* C17: the email channel is selected for a user exactly when is_active and
\* ((force_send and the user has an email address) or should_send(user,
\* notice type, Email, obj_instance)), and in a pass that runs to its end an
\* email send is attempted exactly when the channel was selected.
C17_EmailDecision ==
    /\ pass.idx # 0 =>
            (pass.should_send_email <=>
                /\ pass.is_active
                /\ \/ sn.force_send /\ pass.email
                   \/ pass.email_pref)
    /\ pass.email_tried => pass.should_send_email
    /\ PassOver => (pass.email_tried <=> pass.should_send_email)

\* C17 witness: an active user with an email address and a stored opt-out
\* for Email got the email attempt of a forced send
C17_Witness ==
    /\ PassOver /\ sn.force_send /\ pass.is_active /\ pass.email /\ pass.email_tried
    /\ \E r \in settings : r.user = pass.user /\ r.medium = "1" /\ ~r.send

C19_UnknownLabel ==
    ( /\ sn.pc # "idle"
      /\ \A i \in DOMAIN noticeTypes : noticeTypes[i].label # sn.label ) =>
        /\ sn.pc = "raised" /\ sn.error = "DoesNotExist"
        /\ pass = NoPass
        /\ Len(notices) = sn.entry_notices
        /\ language = sn.entry_language

----------------------------------------------------------------------------
(* Claims about the stored preferences *)

\* the stored row of (user, notice type, medium), if any
Stored(user, nt, medium) == SettingRows(settings, user, nt, medium)

\* no step changes or removes a stored NoticeSetting row
RowsStand == \A r \in settings : r \in settings'

\* a get_notification_setting call that found the row returns it as stored
GetReturnsStored ==
    \A c \in Callers :
        (gns[c].pc = "done" /\ ~gns[c].missing) =>
            Stored(gns[c].user, gns[c].notice_type.id, gns[c].medium) = {gns[c].setting}

\* C21 as stated: once a NoticeSetting row exists no step writes to it;
\* get_notification_setting and should_send return its stored send value,
\* whatever the notice type's default is by then; and
\* get_all_notification_settings creates no row.
C21_StoredValueReturned ==
    /\ [][RowsStand]_vars
    /\ []GetReturnsStored
    /\ [][ \A i \in DOMAIN noticeTypes, medium \in AskedMedia, o \in AskedObjects :
            ( /\ Stored(1, i, medium) # {}
              /\ ShouldSend(1, TypeInstance(noticeTypes, i), medium, o[1], o[2]) ) =>
                /\ settings' = settings
                /\ \A r \in Stored(1, i, medium) : ret'.value = r.send ]_vars
    /\ [][GetAllSettings(1) => settings' = settings]_vars

\* C21 amended: as stated, but should_send returns the stored send value
\* only when the object-scoped override does not apply; when object
\* notifications are enabled, an obj_instance is given and the user has
\* custom_notification_settings on it, should_send returns the answer of
\* the "<medium>-<label>" permission check.  The row is written in no case.
C21_StoredValueStands ==
    /\ [][RowsStand]_vars
    /\ []GetReturnsStored
    /\ [][ \A i \in DOMAIN noticeTypes, medium \in AskedMedia, o \in AskedObjects :
            ( /\ Stored(1, i, medium) # {}
              /\ ShouldSend(1, TypeInstance(noticeTypes, i), medium, o[1], o[2]) ) =>
                /\ settings' = settings
                /\ IF o[1] /\ o[2].has
                   THEN ret'.value = o[2][NOTICE_MEDIA[medium]]
                   ELSE \A r \in Stored(1, i, medium) : ret'.value = r.send ]_vars
    /\ [][GetAllSettings(1) => settings' = settings]_vars

\* C21 witness: get_notification_setting has returned a stored row whose
\* send differs from what the notice type's default, changed since by
\* create_notice_type, would give now
C21_Witness ==
    /\ gns[1].pc = "done" /\ ~gns[1].missing
    /\ gns[1].setting \in settings
    /\ gns[1].setting.send #
            DefaultSend(gns[1].medium, TypeInstance(noticeTypes, gns[1].notice_type.id))
    /\ gns[1].notice_type.default = noticeTypes[gns[1].notice_type.id].default

=============================================================================
